---- MODULE Spec2Model ----
(***************************************************************************)
(* Financial News Analysis: the App component (handleRunAnalysis, the      *)
(* trigger button, the result display and the download action) driving     *)
(* runAnalysisOrchestrator of services/geminiService.ts, in both copies of *)
(* the service (with and without the Verification agent).                  *)
(*                                                                         *)
(* Text is a sequence of one-character strings.  A JavaScript value that   *)
(* JSON.parse can produce is a record [t, n, s, kids, keys]:               *)
(*   t    - "null", "true", "false", "num", "str", "arr" or "obj"          *)
(*   n    - the number, for "num"                                          *)
(*   s    - the characters, for "str"                                      *)
(*   kids - the elements of an "arr", the property values of an "obj"      *)
(*   keys - the property names of an "obj", in insertion order             *)
(***************************************************************************)
EXTENDS Integers, Sequences, FiniteSets, TLC

(* ------------------------------ bounds ---------------------------------- *)

\* handleRunAnalysis is invoked at most this many times (mount + clicks).
MaxRuns == 3

\* A well-formed Analysis response holds 0..MaxItems items.
MaxItems == 2

\* Invalid responses are made by cutting 1..MaxCut characters off a valid one.
MaxCut == 2

(* --------------------------- JavaScript values -------------------------- *)

JNull == [t |-> "null", n |-> 0, s |-> <<>>, kids |-> <<>>, keys |-> <<>>]

JBool(b) == [JNull EXCEPT !.t = IF b THEN "true" ELSE "false"]

JNum(k) == [JNull EXCEPT !.t = "num", !.n = k]

JStr(chars) == [JNull EXCEPT !.t = "str", !.s = chars]

JArr(elems) == [JNull EXCEPT !.t = "arr", !.kids = elems]

JObj(names, vals) == [JNull EXCEPT !.t = "obj", !.keys = names, !.kids = vals]

\* if (analysisResult): null, false, 0 and "" are falsy, everything else truthy.
Truthy(v) ==
  CASE v.t = "null" -> FALSE
    [] v.t = "false" -> FALSE
    [] v.t = "num" -> v.n # 0
    [] v.t = "str" -> v.s # <<>>
    [] OTHER -> TRUE

(* ------------------------------ String.trim ----------------------------- *)

WhiteSpace == {" ", "\n", "\t", "\r"}

RECURSIVE TrimStart(_)
TrimStart(txt) ==
  IF txt # <<>> /\ Head(txt) \in WhiteSpace THEN TrimStart(Tail(txt)) ELSE txt

RECURSIVE TrimEnd(_)
TrimEnd(txt) ==
  IF txt # <<>> /\ txt[Len(txt)] \in WhiteSpace
    THEN TrimEnd(SubSeq(txt, 1, Len(txt) - 1))
    ELSE txt

Trim(txt) == TrimEnd(TrimStart(txt))

(* ------------------------------ JSON.parse ------------------------------ *)

Digits == <<"0", "1", "2", "3", "4", "5", "6", "7", "8", "9">>

DigitChars == {Digits[k] : k \in 1..10}

DigitVal(c) == (CHOOSE k \in 1..10 : Digits[k] = c) - 1

\* EscapeOf keeping the escaped character as it is written.
EscapeOf_Raw(c) == c

\* The character after a backslash in a string literal, and what it stands for.
EscapeOf(c) ==
  CASE c = "\"" -> "\""
    [] c = "\\" -> "\\"
    [] c = "/" -> "/"
    [] c = "n" -> "\n"
    [] c = "t" -> "\t"
    [] c = "r" -> "\r"

Escapable == {"\"", "\\", "/", "n", "t", "r"}

ParseFail == [ok |-> FALSE, val |-> JNull, pos |-> 0]

ParseOk(v, p) == [ok |-> TRUE, val |-> v, pos |-> p]

RECURSIVE SkipWs(_, _)
SkipWs(txt, i) ==
  IF i <= Len(txt) /\ txt[i] \in WhiteSpace THEN SkipWs(txt, i + 1) ELSE i

\* The characters of a string literal from position i (after the opening quote).
RECURSIVE ScanString(_, _, _)
ScanString(txt, i, acc) ==
  IF i > Len(txt) THEN ParseFail
  ELSE IF txt[i] = "\"" THEN ParseOk(JStr(acc), i + 1)
  ELSE IF txt[i] = "\\"
    THEN IF i + 1 <= Len(txt) /\ txt[i + 1] \in Escapable
           THEN ScanString(txt, i + 2, Append(acc, EscapeOf(txt[i + 1])))
           ELSE ParseFail
  ELSE IF txt[i] \in {"\n", "\t", "\r"} THEN ParseFail
  ELSE ScanString(txt, i + 1, Append(acc, txt[i]))

RECURSIVE ScanDigits(_, _, _)
ScanDigits(txt, i, acc) ==
  IF i <= Len(txt) /\ txt[i] \in DigitChars
    THEN ScanDigits(txt, i + 1, 10 * acc + DigitVal(txt[i]))
    ELSE ParseOk(JNum(acc), i)

\* An integer literal: an optional minus, then 0 or a digit string without a
\* leading zero.
ScanNumber(txt, i) ==
  LET neg == txt[i] = "-"
      j == IF neg THEN i + 1 ELSE i
      r == IF j > Len(txt) \/ txt[j] \notin DigitChars THEN ParseFail
           ELSE IF txt[j] = "0" THEN ParseOk(JNum(0), j + 1)
           ELSE ScanDigits(txt, j, 0)
  IN IF r.ok /\ neg THEN ParseOk(JNum(0 - r.val.n), r.pos) ELSE r

ScanLiteral(txt, i, word, v) ==
  IF i + Len(word) - 1 <= Len(txt) /\ SubSeq(txt, i, i + Len(word) - 1) = word
    THEN ParseOk(v, i + Len(word))
    ELSE ParseFail

\* obj[name] = v: a repeated name keeps its place and takes the later value.
SetMember(obj, name, v) ==
  IF \E k \in 1..Len(obj.keys) : obj.keys[k] = name
    THEN LET k == CHOOSE k \in 1..Len(obj.keys) : obj.keys[k] = name
         IN [obj EXCEPT !.kids[k] = v]
    ELSE [obj EXCEPT !.keys = Append(@, name), !.kids = Append(@, v)]

RECURSIVE ParseValue(_, _)
RECURSIVE ParseElements(_, _, _)
RECURSIVE ParseMembers(_, _, _)

\* The elements of an array from position i (at the first character of an
\* element), up to and including the closing bracket.
ParseElements(txt, i, acc) ==
  LET r == ParseValue(txt, i)
      k == SkipWs(txt, r.pos)
  IN IF ~r.ok \/ k > Len(txt) THEN ParseFail
     ELSE IF txt[k] = "," THEN ParseElements(txt, SkipWs(txt, k + 1), Append(acc, r.val))
     ELSE IF txt[k] = "]" THEN ParseOk(JArr(Append(acc, r.val)), k + 1)
     ELSE ParseFail

\* The members of an object from position i (at the opening quote of a name),
\* up to and including the closing brace.
ParseMembers(txt, i, obj) ==
  IF i > Len(txt) \/ txt[i] # "\"" THEN ParseFail
  ELSE
    LET name == ScanString(txt, i + 1, <<>>)
        c == SkipWs(txt, name.pos)
        r == ParseValue(txt, SkipWs(txt, c + 1))
        k == SkipWs(txt, r.pos)
    IN IF ~name.ok \/ c > Len(txt) \/ txt[c] # ":" THEN ParseFail
       ELSE IF ~r.ok \/ k > Len(txt) THEN ParseFail
       ELSE IF txt[k] = ","
         THEN ParseMembers(txt, SkipWs(txt, k + 1), SetMember(obj, name.val.s, r.val))
       ELSE IF txt[k] = "}"
         THEN ParseOk(SetMember(obj, name.val.s, r.val), k + 1)
       ELSE ParseFail

\* One JSON value from position i (at its first character).
ParseValue(txt, i) ==
  IF i > Len(txt) THEN ParseFail
  ELSE IF txt[i] = "{"
    THEN LET j == SkipWs(txt, i + 1)
         IN IF j <= Len(txt) /\ txt[j] = "}" THEN ParseOk(JObj(<<>>, <<>>), j + 1)
            ELSE ParseMembers(txt, j, JObj(<<>>, <<>>))
  ELSE IF txt[i] = "["
    THEN LET j == SkipWs(txt, i + 1)
         IN IF j <= Len(txt) /\ txt[j] = "]" THEN ParseOk(JArr(<<>>), j + 1)
            ELSE ParseElements(txt, j, <<>>)
  ELSE IF txt[i] = "\"" THEN ScanString(txt, i + 1, <<>>)
  ELSE IF txt[i] = "-" \/ txt[i] \in DigitChars THEN ScanNumber(txt, i)
  ELSE IF txt[i] = "t" THEN ScanLiteral(txt, i, <<"t", "r", "u", "e">>, JBool(TRUE))
  ELSE IF txt[i] = "f" THEN ScanLiteral(txt, i, <<"f", "a", "l", "s", "e">>, JBool(FALSE))
  ELSE IF txt[i] = "n" THEN ScanLiteral(txt, i, <<"n", "u", "l", "l">>, JNull)
  ELSE ParseFail

\* JSONParse accepting whatever follows the first value.
JSONParse_IgnoreTrailing(txt) ==
  LET r == ParseValue(txt, SkipWs(txt, 1))
  IN IF r.ok THEN ParseOk(r.val, r.pos) ELSE ParseFail

\* JSON.parse(txt): ok = FALSE stands for the SyntaxError it throws.
JSONParse(txt) ==
  LET r == ParseValue(txt, SkipWs(txt, 1))
  IN IF r.ok /\ SkipWs(txt, r.pos) = Len(txt) + 1 THEN ParseOk(r.val, r.pos)
     ELSE ParseFail

(* ---------------------------- JSON.stringify ---------------------------- *)

RECURSIVE NatText(_)
NatText(k) ==
  IF k < 10 THEN <<Digits[k + 1]>> ELSE NatText(k \div 10) \o <<Digits[(k % 10) + 1]>>

NumText(k) == IF k < 0 THEN <<"-">> \o NatText(0 - k) ELSE NatText(k)

QuoteChar(c) ==
  CASE c = "\"" -> <<"\\", "\"">>
    [] c = "\\" -> <<"\\", "\\">>
    [] c = "\n" -> <<"\\", "n">>
    [] c = "\t" -> <<"\\", "t">>
    [] c = "\r" -> <<"\\", "r">>
    [] OTHER -> <<c>>

RECURSIVE QuoteChars(_)
QuoteChars(chars) ==
  IF chars = <<>> THEN <<>> ELSE QuoteChar(Head(chars)) \o QuoteChars(Tail(chars))

Quote(chars) == <<"\"">> \o QuoteChars(chars) \o <<"\"">>

RECURSIVE Spaces(_)
Spaces(k) == IF k = 0 THEN <<>> ELSE <<" ">> \o Spaces(k - 1)

\* The line break and indentation before an entry at nesting depth d; nothing
\* when space = 0.
Break(space, d) == IF space = 0 THEN <<>> ELSE <<"\n">> \o Spaces(space * d)

RECURSIVE Serialize(_, _, _)
RECURSIVE SerializeEntries(_, _, _, _)

\* Entries k..Len(v.kids) of the array or object v, comma-separated.
SerializeEntries(v, k, space, d) ==
  IF k > Len(v.kids) THEN <<>>
  ELSE (IF k > 1 THEN <<",">> ELSE <<>>)
       \o Break(space, d)
       \o (IF v.t = "obj"
             THEN Quote(v.keys[k]) \o <<":">> \o (IF space = 0 THEN <<>> ELSE <<" ">>)
             ELSE <<>>)
       \o Serialize(v.kids[k], space, d)
       \o SerializeEntries(v, k + 1, space, d)

Serialize(v, space, d) ==
  CASE v.t = "null" -> <<"n", "u", "l", "l">>
    [] v.t = "true" -> <<"t", "r", "u", "e">>
    [] v.t = "false" -> <<"f", "a", "l", "s", "e">>
    [] v.t = "num" -> NumText(v.n)
    [] v.t = "str" -> Quote(v.s)
    [] v.t = "arr" ->
         IF v.kids = <<>> THEN <<"[", "]">>
         ELSE <<"[">> \o SerializeEntries(v, 1, space, d + 1) \o Break(space, d) \o <<"]">>
    [] v.t = "obj" ->
         IF v.kids = <<>> THEN <<"{", "}">>
         ELSE <<"{">> \o SerializeEntries(v, 1, space, d + 1) \o Break(space, d) \o <<"}">>

\* JSON.stringify(v, null, space)
JSONStringify(v, space) == Serialize(v, space, 0)

(* ------------------------------ errors ---------------------------------- *)

\* A thrown value: instanceOfError is what `error instanceof Error` reads.
Error(msg) == [instanceOfError |-> TRUE, message |-> msg]

NoError == [instanceOfError |-> FALSE, message |-> ""]

ScoutFailedMsg == "News Scout agent failed to retrieve news."

VerificationFailedMsg ==
  "Verification agent failed. It may have found fake, inaccurate, or old news."

EmptyResponseMsg == "Macro Analyst returned an empty response."

AnalystFailedMsg ==
  "Macro Analyst agent failed to generate analysis. The model may have returned invalid JSON."

NoContentMsg == "News Scout returned no content."

UnknownOrchestrationMsg == "An unknown error occurred during orchestration."

\* What an awaited call settles with: a thrown error, or a returned text
\* (Scout, Verification) or value (Analysis).
UndefinedText == [defined |-> FALSE, chars |-> <<>>]

Text(chars) == [defined |-> TRUE, chars |-> chars]

Threw(e) == [threw |-> TRUE, err |-> e, text |-> UndefinedText, val |-> JNull]

ReturnedText(t) == [threw |-> FALSE, err |-> NoError, text |-> t, val |-> JNull]

ReturnedValue(v) == [threw |-> FALSE, err |-> NoError, text |-> UndefinedText, val |-> v]

(* ------------------------ responses of the model ------------------------ *)

\* What ai.models.generateContent settles with: it rejects (failed), or it
\* resolves with a response whose .text is a string or undefined.  objection
\* is whether the text of a Verification response reports a fake, inaccurate
\* or old item.
Response(failed, t, objection) ==
  [failed |-> failed, text |-> t, objection |-> objection]

Rejected == Response(TRUE, UndefinedText, FALSE)

NoResponse == Response(FALSE, UndefinedText, FALSE)

NewsA == <<"1", ".", " ", "F", "e", "d", " ", "r", "a", "i", "s", "e", "s", " ", "r", "a", "t", "e", "s">>

NewsB == <<" ", "E", "C", "B", " ", "h", "o", "l", "d", "s", "\n">>

BlankTexts == {<<>>, <<" ">>, <<"\n", " ", "\t">>}

ScoutResponses ==
  {Rejected, NoResponse}
    \cup {Response(FALSE, Text(t), FALSE) : t \in BlankTexts \cup {NewsA, NewsB}}

VerificationResponses ==
  {Rejected, Response(FALSE, Text(NewsA), FALSE), Response(FALSE, Text(<<"o", "l", "d">>), TRUE)}

K_macro_analysis == <<"m", "a", "c", "r", "o", "_", "a", "n", "a", "l", "y", "s", "i", "s">>

K_news_summary == <<"n", "e", "w", "s", "_", "s", "u", "m", "m", "a", "r", "y">>

K_importance_score == <<"i", "m", "p", "o", "r", "t", "a", "n", "c", "e", "_", "s", "c", "o", "r", "e">>

K_identified_macro_factors == <<"i", "d", "e", "n", "t", "i", "f", "i", "e", "d", "_", "m", "a", "c", "r", "o", "_", "f", "a", "c", "t", "o", "r", "s">>

K_impact_analysis == <<"i", "m", "p", "a", "c", "t", "_", "a", "n", "a", "l", "y", "s", "i", "s">>

\* The k-th item of a response that follows MACRO_ANALYSIS_SCHEMA; scored is
\* whether the schema has importance_score.
MacroAnalysisItem(k, scored) ==
  IF scored
    THEN JObj(<<K_news_summary, K_importance_score, K_identified_macro_factors,
                K_impact_analysis>>,
              <<JStr(<<"F", "e", "d", " ", Digits[k + 1]>>), JNum(11 - k),
                JArr(<<JStr(<<"r", "a", "t", "e", "s">>)>>),
                JStr(<<"u", "p", " ", "\"", Digits[k + 1], "\"", "\n">>)>>)
    ELSE JObj(<<K_news_summary, K_identified_macro_factors, K_impact_analysis>>,
              <<JStr(<<"F", "e", "d", " ", Digits[k + 1]>>),
                JArr(<<JStr(<<"r", "a", "t", "e", "s">>)>>),
                JStr(<<"u", "p", " ", "\"", Digits[k + 1], "\"", "\n">>)>>)

MacroAnalysisResult(n, scored) ==
  JObj(<<K_macro_analysis>>, <<JArr([k \in 1..n |-> MacroAnalysisItem(k, scored)])>>)

\* The texts of a well-formed response of n items: compact, pretty-printed,
\* and compact inside white space.
WellFormedTexts(n, scored) ==
  LET v == MacroAnalysisResult(n, scored)
  IN {JSONStringify(v, 0), JSONStringify(v, 2),
      <<" ">> \o JSONStringify(v, 0) \o <<"\n">>}

\* A well-formed response with its last 1..MaxCut characters missing.
CutTexts(scored) ==
  {SubSeq(t, 1, Len(t) - c) :
     t \in {JSONStringify(MacroAnalysisResult(n, scored), 0) : n \in 0..MaxItems},
     c \in 1..MaxCut}

MalformedTexts ==
  {<<"{">>,
   <<"n", "u", "l">>,
   <<"[", "1", ",", "]">>,
   <<"{", "\"", "a", "\"", ":", "1", ",", "}">>,
   <<"0", "1">>,
   <<"{", "\"", "a", "\"", " ", "1", "}">>,
   <<"{", "'", "a", "'", ":", "1", "}">>,
   <<"[", "1", " ", "2", "]">>,
   <<"\"", "a", "\n", "b", "\"">>,
   <<"{", "\"", "m", "a", "c", "r", "o", "_", "a", "n", "a", "l", "y", "s", "i", "s", "\"", ":", "[", "{", "]", "}">>,
   <<"u", "n", "d", "e", "f", "i", "n", "e", "d">>,
   <<"-">>,
   <<"{", "\"", "m", "a", "c", "r", "o", "_", "a", "n", "a", "l", "y", "s", "i", "s", "\"", ":", "[", "]", "}", "}">>,
   <<"[", "{", "\"", "n", "e", "w", "s", "_", "s", "u", "m", "m", "a", "r", "y", "\"", ":", "\"", "F", "e", "d", "\"", "}", "]", " ", "d", "o", "n", "e">>}

InvalidJsonTexts(scored) == CutTexts(scored) \cup MalformedTexts

\* Valid JSON that is no MacroAnalysisResult.
OtherJsonTexts ==
  {<<"n", "u", "l", "l">>,
   <<"0">>,
   <<"f", "a", "l", "s", "e">>,
   <<"\"", "\"">>,
   <<"t", "r", "u", "e">>,
   <<"7">>,
   <<"[", "]">>,
   <<"{", "}">>,
   <<"{", "\"", "a", "\"", ":", "1", ",", "\"", "a", "\"", ":", "2", "}">>,
   <<" ", "\"", "x", "\\", "n", "y", "\"", " ">>}

AnalysisTexts(scored) ==
  UNION {WellFormedTexts(n, scored) : n \in 0..MaxItems}
    \cup InvalidJsonTexts(scored) \cup OtherJsonTexts \cup BlankTexts

AnalysisResponses(scored) ==
  {Rejected, NoResponse}
    \cup {Response(FALSE, Text(t), FALSE) : t \in AnalysisTexts(scored)}

(* ------------------------------- agents --------------------------------- *)

\* runNewsScoutAgent: the response's text (possibly undefined), or the Scout
\* error when the call rejects.
runNewsScoutAgent(resp) ==
  IF resp.failed THEN Threw(Error(ScoutFailedMsg)) ELSE ReturnedText(resp.text)

\* runVerificationAgent returning the text of the response instead of its argument.
runVerificationAgent_ReturnsResponse(unverifiedNewsText, resp) ==
  IF resp.failed THEN Threw(Error(VerificationFailedMsg)) ELSE ReturnedText(resp.text)

\* runVerificationAgent: the response is not read; the argument is returned.
runVerificationAgent(unverifiedNewsText, resp) ==
  IF resp.failed THEN Threw(Error(VerificationFailedMsg))
  ELSE ReturnedText(unverifiedNewsText)

\* The try block of runMacroAnalystAgent.  Reading .trim of an undefined text
\* throws a TypeError, JSON.parse of invalid text a SyntaxError.
MacroAnalystTry(resp) ==
  IF resp.failed THEN Threw(Error("generateContent rejected"))
  ELSE IF ~resp.text.defined THEN Threw(Error("TypeError"))
  ELSE LET resultJson == Trim(resp.text.chars)
       IN IF resultJson = <<>> THEN Threw(Error(EmptyResponseMsg))
          ELSE LET parsed == JSONParse(resultJson)
               IN IF parsed.ok THEN ReturnedValue(parsed.val)
                  ELSE Threw(Error("SyntaxError"))

\* The catch block of runMacroAnalystAgent: whatever the try block threw is
\* replaced.
MacroAnalystCatch(o) == IF o.threw THEN Threw(Error(AnalystFailedMsg)) ELSE o

runMacroAnalystAgent(resp) == MacroAnalystCatch(MacroAnalystTry(resp))

\* runMacroAnalystAgent on every response the model can give, computed once.
AnalystOutcomes ==
  [scored \in BOOLEAN |->
     [resp \in AnalysisResponses(scored) |-> runMacroAnalystAgent(resp)]]

\* NoContent without the trim: only a missing or empty text counts.
NoContent_NoTrim(newsText) == ~newsText.defined \/ newsText.chars = <<>>

\* !newsText || newsText.trim() === ""
NoContent(newsText) ==
  \/ ~newsText.defined
  \/ newsText.chars = <<>>
  \/ Trim(newsText.chars) = <<>>

\* OrchestratorCatch replacing every error by the generic one.
OrchestratorCatch_Generic(e) == Error(UnknownOrchestrationMsg)

\* The catch block of runAnalysisOrchestrator.
OrchestratorCatch(e) ==
  IF e.instanceOfError THEN e ELSE Error(UnknownOrchestrationMsg)

\* runAnalysisOrchestrator of the copy without Verification, as a function of
\* the two responses: what it returns or throws.
OrchestratorWithoutVerification(scoutResp, analysisResp) ==
  LET s == runNewsScoutAgent(scoutResp)
  IN IF s.threw THEN Threw(OrchestratorCatch(s.err))
     ELSE IF NoContent(s.text) THEN Threw(OrchestratorCatch(Error(NoContentMsg)))
     ELSE LET a == runMacroAnalystAgent(analysisResp)
          IN IF a.threw THEN Threw(OrchestratorCatch(a.err)) ELSE a

(* -------------------------------- state --------------------------------- *)

VARIABLES
  variant,        \* which copy of geminiService.ts is built: with or without Verification
  isLoading,      \* App state
  statusMessage,  \* App state
  result,         \* App state: a value, JNull for null
  error,          \* App state: a message, NoMessage for null
  mounted,        \* the mount effect has run
  nRuns,          \* invocations of handleRunAnalysis so far
  run,            \* per invocation: where it is suspended, its locals, its history
  downloaded      \* the text of the file downloaded from the result on display

vars ==
  <<variant, isLoading, statusMessage, result, error, mounted, nRuns, run, downloaded>>

NoMessage == "null"

Variants == {"withVerification", "withoutVerification"}

Scored == variant = "withVerification"

ScoutStatus == "Orchestrator: Calling News Scout Agent..."

VerificationStatus == "Orchestrator: Calling Verification Agent..."

AnalystStatus == "Orchestrator: Calling Macro Analyst Agent..."

StatusOf(step) ==
  CASE step = "Scout" -> ScoutStatus
    [] step = "Verification" -> VerificationStatus
    [] step = "Analysis" -> AnalystStatus

\* The steps of a run that fails nowhere, in the order of the calls.
StepOrder ==
  IF variant = "withVerification" THEN <<"Scout", "Verification", "Analysis">>
  ELSE <<"Scout", "Analysis">>

\* An invocation of handleRunAnalysis.  pc is the await it is suspended at
\* ("idle" before it starts, "done" once it has settled); newsText is the
\* orchestrator's local; the rest records what the invocation did:
\*   calls         - the agents invoked, in order
\*   statusLog     - the messages passed to setStatus, in order
\*   received      - the responses received
\*   scoutResp, verificationResp, analysisResp - those responses
\*   analysisInput - the argument of runMacroAnalystAgent
\*   stepError     - the message of the error an agent threw
\*   outcome       - what runAnalysisOrchestrator settled with
FreshRun ==
  [pc |-> "idle", newsText |-> UndefinedText, calls |-> <<>>, statusLog |-> <<>>,
   received |-> 0, scoutResp |-> NoResponse, verificationResp |-> NoResponse,
   analysisResp |-> NoResponse, analysisInput |-> UndefinedText,
   stepError |-> "", outcome |-> ReturnedValue(JNull)]

Runs == 1..MaxRuns

Pending == {"scout", "verify", "analyse"}

InFlight == {i \in Runs : run[i].pc \in Pending}

Init ==
  /\ variant \in Variants
  /\ isLoading = TRUE
  /\ statusMessage = "Initiating analysis..."
  /\ result = JNull
  /\ error = NoMessage
  /\ mounted = FALSE
  /\ nRuns = 0
  /\ run = [i \in Runs |-> FreshRun]
  /\ downloaded = <<>>

(* ------------------------------ rendering ------------------------------- *)

\* A trigger that is never disabled.
Disabled_Never == FALSE

\* disabled={isLoading}
Disabled == isLoading

\* <ErrorAlert error={error} />: if (!error) return null
ErrorVisible == error # NoMessage /\ error # ""

\* {result && !isLoading && (<ResultDisplay/> ... Download JSON ...)}
ResultVisible == Truthy(result) /\ ~isLoading

\* ResultDisplay: JSON.stringify(result, null, 2)
ResultDisplay == JSONStringify(result, 2)

(* ------------------------------- actions -------------------------------- *)

\* Invoke without the setStatus call.
Invoke_NoStatus(r, step, nextPc) ==
  [r EXCEPT !.pc = nextPc, !.calls = Append(@, step)]

\* setStatus(StatusOf(step)) followed by the call of the step's agent.
Invoke(r, step, nextPc) ==
  [r EXCEPT !.pc = nextPc,
            !.calls = Append(@, step),
            !.statusLog = Append(@, StatusOf(step))]

\* HandleSettled storing whatever the orchestrator returned, falsy or not.
HandleSettled_StoresFalsy(o) ==
  /\ isLoading' = FALSE
  /\ IF o.threw
       THEN /\ error' = "An error occurred: " \o o.err.message
            /\ statusMessage' = "Analysis failed."
            /\ UNCHANGED result
       ELSE /\ result' = o.val
            /\ statusMessage' = "Analysis complete."
            /\ UNCHANGED error

\* HandleSettled without the finally block.
HandleSettled_NoFinally(o) ==
  /\ UNCHANGED isLoading
  /\ IF o.threw
       THEN /\ error' = "An error occurred: " \o o.err.message
            /\ statusMessage' = "Analysis failed."
            /\ UNCHANGED result
       ELSE IF Truthy(o.val)
         THEN /\ result' = o.val
              /\ statusMessage' = "Analysis complete."
              /\ UNCHANGED error
         ELSE /\ error' = "The analysis could not be completed."
              /\ statusMessage' = "Analysis failed."
              /\ UNCHANGED result

\* handleRunAnalysis after `await runAnalysisOrchestrator(setStatusMessage)`
\* settled with o: the rest of the try block, or the catch block, then finally.
HandleSettled(o) ==
  /\ isLoading' = FALSE
  /\ IF o.threw
       THEN /\ error' = "An error occurred: "
                          \o (IF o.err.instanceOfError THEN o.err.message
                              ELSE "An unknown error occurred.")
            /\ statusMessage' = "Analysis failed."
            /\ UNCHANGED result
       ELSE IF Truthy(o.val)
         THEN /\ result' = o.val
              /\ statusMessage' = "Analysis complete."
              /\ UNCHANGED error
         ELSE /\ error' = "The analysis could not be completed."
              /\ statusMessage' = "Analysis failed."
              /\ UNCHANGED result

\* runAnalysisOrchestrator of invocation i settles with o (r is its record),
\* and handleRunAnalysis resumes.
Settle(i, r, o) ==
  /\ run' = [run EXCEPT ![i] = [r EXCEPT !.pc = "done", !.outcome = o]]
  /\ HandleSettled(o)

\* An agent threw e: the orchestrator's catch block decides what is raised.
Fail(i, r, e) == Settle(i, r, Threw(OrchestratorCatch(e)))

\* handleRunAnalysis without setResult(null) and setError(null).
handleRunAnalysis_NoReset ==
  /\ nRuns < MaxRuns
  /\ nRuns' = nRuns + 1
  /\ isLoading' = TRUE
  /\ UNCHANGED <<result, error>>
  /\ statusMessage' = ScoutStatus
  /\ downloaded' = <<>>
  /\ run' = [i \in Runs |->
               IF i = nRuns + 1
                 THEN [FreshRun EXCEPT !.pc = "scout", !.calls = <<"Scout">>,
                                       !.statusLog = <<ScoutStatus>>]
               ELSE IF run[i].pc = "done" THEN [FreshRun EXCEPT !.pc = "done"]
               ELSE run[i]]

\* handleRunAnalysis up to its first await: the state resets, then
\* runAnalysisOrchestrator up to `await runNewsScoutAgent()`.  The locals of
\* the invocations that have settled are dropped, and so is the record of a
\* download of the result that is being discarded.
handleRunAnalysis ==
  /\ nRuns < MaxRuns
  /\ nRuns' = nRuns + 1
  /\ isLoading' = TRUE
  /\ result' = JNull
  /\ error' = NoMessage
  /\ statusMessage' = ScoutStatus
  /\ downloaded' = <<>>
  /\ run' = [i \in Runs |->
               IF i = nRuns + 1 THEN Invoke(FreshRun, "Scout", "scout")
               ELSE IF run[i].pc = "done" THEN [FreshRun EXCEPT !.pc = "done"]
               ELSE run[i]]

\* useEffect(() => { handleRunAnalysis(); }, [])
Mount ==
  /\ ~mounted
  /\ mounted' = TRUE
  /\ handleRunAnalysis
  /\ UNCHANGED variant

\* A click on the trigger button.
ClickRun ==
  /\ mounted
  /\ ~Disabled
  /\ handleRunAnalysis
  /\ UNCHANGED <<variant, mounted>>

\* The Scout call of invocation i settles.
ScoutSettles(i, resp) ==
  /\ run[i].pc = "scout"
  /\ LET o == runNewsScoutAgent(resp)
         r == [run[i] EXCEPT !.received = @ + 1, !.scoutResp = resp,
                             !.newsText = o.text,
                             !.stepError = IF o.threw THEN o.err.message ELSE @]
     IN IF o.threw THEN Fail(i, r, o.err)
        ELSE IF NoContent(o.text) THEN Fail(i, r, Error(NoContentMsg))
        ELSE /\ IF variant = "withVerification"
                  THEN /\ run' = [run EXCEPT ![i] = Invoke(r, "Verification", "verify")]
                       /\ statusMessage' = VerificationStatus
                  ELSE /\ run' = [run EXCEPT ![i] =
                                    [Invoke(r, "Analysis", "analyse")
                                       EXCEPT !.analysisInput = o.text]]
                       /\ statusMessage' = AnalystStatus
             /\ UNCHANGED <<isLoading, result, error>>
  /\ UNCHANGED <<variant, mounted, nRuns, downloaded>>

\* The Verification call of invocation i settles.
VerificationSettles(i, resp) ==
  /\ run[i].pc = "verify"
  /\ LET o == runVerificationAgent(run[i].newsText, resp)
         r == [run[i] EXCEPT !.received = @ + 1, !.verificationResp = resp,
                             !.stepError = IF o.threw THEN o.err.message ELSE @]
     IN IF o.threw THEN Fail(i, r, o.err)
        ELSE /\ run' = [run EXCEPT ![i] =
                          [Invoke(r, "Analysis", "analyse")
                             EXCEPT !.analysisInput = o.text]]
             /\ statusMessage' = AnalystStatus
             /\ UNCHANGED <<isLoading, result, error>>
  /\ UNCHANGED <<variant, mounted, nRuns, downloaded>>

\* The Analysis call of invocation i settles.
AnalysisSettles(i, resp) ==
  /\ run[i].pc = "analyse"
  /\ LET o == AnalystOutcomes[Scored][resp]
         r == [run[i] EXCEPT !.received = @ + 1, !.analysisResp = resp,
                             !.stepError = IF o.threw THEN o.err.message ELSE @]
     IN IF o.threw THEN Fail(i, r, o.err) ELSE Settle(i, r, o)
  /\ UNCHANGED <<variant, mounted, nRuns, downloaded>>

\* A click on Download JSON, which is rendered with the result.
handleDownloadJson ==
  /\ ResultVisible
  /\ Truthy(result)
  /\ downloaded' = JSONStringify(result, 2)
  /\ UNCHANGED <<variant, isLoading, statusMessage, result, error, mounted, nRuns, run>>

ScoutStep == \E i \in Runs, resp \in ScoutResponses : ScoutSettles(i, resp)

VerificationStep ==
  \E i \in Runs, resp \in VerificationResponses : VerificationSettles(i, resp)

AnalysisStep ==
  \E i \in Runs, resp \in DOMAIN AnalystOutcomes[Scored] : AnalysisSettles(i, resp)

Next ==
  \/ Mount
  \/ ClickRun
  \/ ScoutStep
  \/ VerificationStep
  \/ AnalysisStep
  \/ handleDownloadJson

Spec == Init /\ [][Next]_vars

\* Every call of the model eventually returns or fails.
FairSpec ==
  Spec /\ WF_vars(Mount) /\ WF_vars(ScoutStep) /\ WF_vars(VerificationStep)
       /\ WF_vars(AnalysisStep)

(* ------------------------------- claims --------------------------------- *)

\* The invocation has run to its end and its record is still held.
Settled(i) == run[i].pc = "done" /\ run[i].received > 0

\* The Analysis response of invocation i has been received.
AnalysisReceived(i) ==
  Settled(i) /\ run[i].calls = StepOrder /\ run[i].received = Len(StepOrder)

\* Every character of the text is white space (the empty text included).
Blank(chars) == \A k \in 1..Len(chars) : chars[k] \in WhiteSpace

\* The number of elements of v.macro_analysis.
ItemCount(v) ==
  LET k == CHOOSE k \in 1..Len(v.keys) : v.keys[k] = K_macro_analysis
  IN Len(v.kids[k].kids)

\* C1: whenever the Scout step returns text that is missing, empty or only
\* white space, the run fails with "News Scout returned no content." and
\* neither Verification nor Analysis is invoked in that run.
C1_ScoutNoContent ==
  \A i \in Runs :
    (/\ run[i].received >= 1
     /\ ~run[i].scoutResp.failed
     /\ (~run[i].scoutResp.text.defined \/ Blank(run[i].scoutResp.text.chars)))
    => /\ run[i].pc = "done"
       /\ run[i].outcome.threw
       /\ run[i].outcome.err.message = NoContentMsg
       /\ run[i].calls = <<"Scout">>

C1_Witness ==
  \E i \in Runs :
    /\ run[i].pc = "done"
    /\ run[i].scoutResp = Response(FALSE, Text(<<"\n", " ", "\t">>), FALSE)
    /\ error = "An error occurred: News Scout returned no content."

\* C2: whenever the Analysis response is empty after trimming, the error that
\* reaches the caller of the orchestrator is "Macro Analyst returned an empty
\* response." and no result is produced.
C2_EmptyResponseReachesCaller ==
  \A i \in Runs :
    (/\ AnalysisReceived(i)
     /\ ~run[i].analysisResp.failed
     /\ run[i].analysisResp.text.defined
     /\ Blank(run[i].analysisResp.text.chars))
    => /\ run[i].outcome.threw
       /\ run[i].outcome.err.message = EmptyResponseMsg
       /\ result = JNull

\* C3: if a step fails, no later step of that run is invoked, and the error
\* the orchestrator raises carries exactly the message the failing step
\* raised.
C3_StepErrorUnchanged ==
  \A i \in Runs :
    run[i].stepError # ""
    => /\ run[i].pc = "done"
       /\ run[i].received = Len(run[i].calls)
       /\ run[i].outcome.threw
       /\ run[i].outcome.err.message = run[i].stepError
       /\ run[i].stepError =
            (CASE run[i].calls[Len(run[i].calls)] = "Scout" -> ScoutFailedMsg
               [] run[i].calls[Len(run[i].calls)] = "Verification" -> VerificationFailedMsg
               [] run[i].calls[Len(run[i].calls)] = "Analysis" -> AnalystFailedMsg)

C3_Witness ==
  \E i \in Runs :
    /\ run[i].stepError = VerificationFailedMsg
    /\ run[i].calls = <<"Scout", "Verification">>
    /\ error = "An error occurred: " \o VerificationFailedMsg

\* C4 (state part): the steps invoked are an initial part of Scout,
\* (Verification,) Analysis, each invoked once and only after the previous
\* response was received, each announced through the status callback.
C4_Ordered ==
  \A i \in Runs :
    /\ Len(run[i].calls) <= Len(StepOrder)
    /\ run[i].calls = SubSeq(StepOrder, 1, Len(run[i].calls))
    /\ run[i].statusLog = [k \in 1..Len(run[i].calls) |-> StatusOf(run[i].calls[k])]
    /\ run[i].pc \in Pending => run[i].received = Len(run[i].calls) - 1
    /\ run[i].pc = "done" => run[i].received = Len(run[i].calls)
    /\ run[i].pc \in Pending => statusMessage = StatusOf(run[i].calls[Len(run[i].calls)])

\* C4 (step part): once a run has failed or returned, the status callback is
\* not called for it and no step is invoked for it.
C4_Quiet ==
  \A i \in Runs :
    run[i].pc = "done"
    => /\ run'[i].pc = "done"
       /\ Len(run'[i].statusLog) <= Len(run[i].statusLog)
       /\ Len(run'[i].calls) <= Len(run[i].calls)

\* C4: within one run the steps are invoked strictly in the order Scout,
\* Verification (where present), Analysis, each at most once and only after
\* the previous response; the status callback is called with the step's
\* message when the step is invoked and never after the run has ended.
C4_StrictSequence == [](C4_Ordered) /\ [][C4_Quiet]_vars

C4_Witness ==
  \E i \in Runs :
    /\ variant = "withVerification"
    /\ run[i].pc = "done"
    /\ run[i].calls = <<"Scout", "Verification", "Analysis">>
    /\ run[i].statusLog = <<ScoutStatus, VerificationStatus, AnalystStatus>>
    /\ ~run[i].outcome.threw

\* C5: at most one analysis run is in flight; one run starts at mount; the
\* trigger is disabled exactly while isLoading, which covers every moment a
\* run is in flight.
C5_SingleRun ==
  /\ Cardinality(InFlight) <= 1
  /\ mounted => nRuns >= 1
  /\ ~mounted => nRuns = 0
  /\ Disabled <=> isLoading
  /\ InFlight # {} => Disabled
  /\ ~mounted => Disabled

C5_Witness == nRuns = 2 /\ Cardinality(InFlight) = 1 /\ Disabled

\* C6: the Verification step returns the Scout text unchanged if the model
\* raises no objection, and throws if the response signals a problem, so that
\* the Analysis step is then not invoked.
C6_ObjectionThrows ==
  \A i \in Runs :
    (/\ run[i].received >= 2
     /\ variant = "withVerification"
     /\ ~run[i].verificationResp.failed)
    => IF run[i].verificationResp.objection
         THEN /\ run[i].pc = "done"
              /\ run[i].outcome.threw
              /\ run[i].calls = <<"Scout", "Verification">>
         ELSE run[i].analysisInput = run[i].scoutResp.text

\* C7: whenever the Analysis response text is not valid JSON, the App ends
\* the run with a non-null error and a null result: the error banner is
\* shown, no result is displayed or downloadable.
C7_InvalidJsonFails ==
  \A i \in Runs :
    (/\ AnalysisReceived(i)
     /\ run[i].analysisResp.text.defined
     /\ run[i].analysisResp.text.chars \in InvalidJsonTexts(Scored))
    => /\ ~isLoading
       /\ error # NoMessage
       /\ result = JNull
       /\ ErrorVisible
       /\ ~ResultVisible
       /\ ~ENABLED handleDownloadJson

C7_Witness ==
  \E i \in Runs :
    /\ AnalysisReceived(i)
    /\ run[i].analysisResp.text.chars \in CutTexts(Scored)
    /\ error = "An error occurred: " \o AnalystFailedMsg

\* Exactly one of result and error is non-null.
ExactlyOne == (result # JNull) # (error # NoMessage)

\* C8: every run that is started eventually completes with isLoading false
\* and exactly one of result and error non-null, which re-enables the
\* trigger, after a failed run as after a successful one.
C8_RunCompletes ==
  /\ [](~isLoading => ExactlyOne /\ ~Disabled /\ InFlight = {})
  /\ \A i \in Runs :
       (run[i].pc \in Pending)
         ~> (run[i].pc = "done" /\ ~isLoading /\ ~Disabled /\ ExactlyOne)

C8_Witness ==
  /\ nRuns = 2
  /\ run[2].pc = "done"
  /\ run[2].outcome.threw
  /\ ~isLoading
  /\ ~Disabled
  /\ error # NoMessage
  /\ result = JNull

\* C9: after a successful run whose Analysis response encodes n well-formed
\* items, the App's result is the parsed response, the displayed text and
\* the downloaded file are the same pretty-printed serialization, and parsing
\* that serialization gives back the same structure with exactly n items.
C9_RoundTrip ==
  \A i \in Runs, n \in 0..MaxItems :
    (/\ AnalysisReceived(i)
     /\ run[i].analysisResp.text.defined
     /\ run[i].analysisResp.text.chars \in WellFormedTexts(n, Scored))
    => /\ ~run[i].outcome.threw
       /\ result = run[i].outcome.val
       /\ result = MacroAnalysisResult(n, Scored)
       /\ ResultVisible
       /\ LET back == JSONParse(ResultDisplay)
          IN back.ok /\ back.val = result /\ ItemCount(back.val) = n
       /\ downloaded # <<>> => downloaded = ResultDisplay

C9_Witness ==
  \E i \in Runs :
    /\ AnalysisReceived(i)
    /\ run[i].analysisResp.text.chars \in WellFormedTexts(MaxItems, Scored)
    /\ downloaded # <<>>
    /\ ItemCount(JSONParse(downloaded).val) = MaxItems

\* C10: while isLoading is true neither a result nor an error banner is
\* visible: a re-run discards the previous result and error before Scout is
\* invoked, and result or error is never set while the App is still loading.
C10_NothingShownWhileLoading ==
  /\ isLoading => ~ResultVisible /\ ~ErrorVisible /\ result = JNull /\ error = NoMessage
  /\ InFlight # {} => isLoading

C10_Witness == nRuns >= 2 /\ isLoading /\ \E i \in Runs : run[i].pc = "scout"

CouldNotCompleteMsg == "The analysis could not be completed."

\* The values `if (analysisResult)` takes for false.
FalsyValues == {JNull, JBool(FALSE), JNum(0), JStr(<<>>)}

\* No step of invocation i failed: Scout returned non-blank text, the
\* Verification call returned, Analysis returned non-empty text that parses.
NoStepFailed(i) ==
  /\ AnalysisReceived(i)
  /\ run[i].stepError = ""
  /\ ~run[i].analysisResp.failed
  /\ run[i].analysisResp.text.defined
  /\ ~Blank(run[i].analysisResp.text.chars)
  /\ JSONParse(Trim(run[i].analysisResp.text.chars)).ok

\* C11 as stated: if no step of a run fails, the run ends with the parsed
\* value as the App's result and error null, and the 'could not be completed'
\* error is reached in no run in which the orchestrator returned.
C11_NoFailureGivesResult ==
  \A i \in Runs :
    /\ NoStepFailed(i)
         => /\ result = JSONParse(Trim(run[i].analysisResp.text.chars)).val
            /\ error = NoMessage
    /\ (Settled(i) /\ ~run[i].outcome.threw) => error # CouldNotCompleteMsg

\* C11 amended: if no step of a run fails and the parsed value is truthy
\* (not null, false, 0 or ""), the run ends with the parsed value as the
\* App's result and error null; if it is falsy the run ends with result null
\* and the 'could not be completed' error, and that error is reached only so.
C11_TruthyGivesResult ==
  /\ \A i \in Runs :
       NoStepFailed(i)
         => LET parsed == JSONParse(Trim(run[i].analysisResp.text.chars)).val
            IN /\ ~run[i].outcome.threw
               /\ ~isLoading
               /\ IF parsed \in FalsyValues
                    THEN result = JNull /\ error = CouldNotCompleteMsg
                    ELSE result = parsed /\ error = NoMessage
  /\ error = CouldNotCompleteMsg
       => \E i \in Runs : NoStepFailed(i) /\ run[i].outcome.val \in FalsyValues

C11_Witness ==
  \E i \in Runs :
    /\ NoStepFailed(i)
    /\ run[i].outcome.val = JNum(0)
    /\ error = CouldNotCompleteMsg

\* The messages the copy without Verification passes to setStatus.
StatusLogWithoutVerification(scoutResp) ==
  IF scoutResp.failed \/ ~scoutResp.text.defined \/ Blank(scoutResp.text.chars)
    THEN <<ScoutStatus>>
    ELSE <<ScoutStatus, AnalystStatus>>

NotVerificationStatus(msg) == msg # VerificationStatus

\* C12: on every run in which the Verification call does not fail, both
\* copies of the orchestrator hand the Analysis step exactly the Scout text
\* and end as the copy without Verification ends on the same Scout and
\* Analysis responses, with the same result or error in the App; their
\* status messages differ only by 'Calling Verification Agent'.
C12_VariantsAgree ==
  \A i \in Runs :
    (Settled(i) /\ run[i].stepError # VerificationFailedMsg)
    => LET o == OrchestratorWithoutVerification(run[i].scoutResp, run[i].analysisResp)
       IN /\ run[i].outcome = o
          /\ "Analysis" \in {run[i].calls[k] : k \in 1..Len(run[i].calls)}
               => run[i].analysisInput = run[i].scoutResp.text
          /\ SelectSeq(run[i].statusLog, NotVerificationStatus)
               = StatusLogWithoutVerification(run[i].scoutResp)
          /\ variant = "withVerification" /\ run[i].received >= 2
               => run[i].statusLog = <<ScoutStatus, VerificationStatus, AnalystStatus>>
          /\ IF o.threw
               THEN result = JNull /\ error = "An error occurred: " \o o.err.message
               ELSE IF o.val \in FalsyValues
                 THEN result = JNull /\ error = CouldNotCompleteMsg
                 ELSE result = o.val /\ error = NoMessage

C12_Witness ==
  \E i \in Runs :
    /\ variant = "withVerification"
    /\ Settled(i)
    /\ run[i].scoutResp.text = Text(NewsB)
    /\ run[i].verificationResp.objection
    /\ run[i].analysisInput = Text(NewsB)
    /\ ~run[i].outcome.threw
    /\ ResultVisible

====
